---- MODULE Spec2Model ----
(***************************************************************************)
(* Release-artifact reconciliation of sdkit's build scripts.               *)
(*                                                                         *)
(* scripts/upload/__main__.py reconciles one target's release_artifacts    *)
(* directory (a manifest and one .tar.gz archive per manifest entry)       *)
(* against the assets of a GitHub release.  The model follows              *)
(* compare_and_upload call by call: every delete_asset / upload_asset is   *)
(* one step, so that a run can be interrupted between any two of them.     *)
(***************************************************************************)
EXTENDS Integers, Sequences, FiniteSets, TLC

(***************************************************************************)
(* Bounds of the model.                                                    *)
(***************************************************************************)
\* Number of builds (rewrites of the local manifest) between two upload runs.
\* The number of upload runs of a behaviour is not bounded.
MaxBuilds == 1

\* Content digests (compute_sha256 results), hex strings in the program.
Hashes == {"aaa", "bbb"}
\* Basenames of the built files, in the order the manifest lists them.
FileOrder == <<"app", "rt">>
Basenames == {FileOrder[i] : i \in 1..Len(FileOrder)}

\* Python's None where a manifest document is expected, and the state of a
\* local variable that was never assigned.
None == [none |-> TRUE]
Unbound == [unbound |-> TRUE]
\* Python's None where a digest is expected.
NoHash == "None"

(***************************************************************************)
(* Names.                                                                  *)
(***************************************************************************)
\* common.py get_target: "{os}-{arch}-{platform}-{variant}"; the os, arch and
\* platform part is the same for all targets of one build and left out.
get_target(variant_name) == variant_name
Target == get_target("sm86")
TargetAny == get_target("any")

\* common.py add_to_manifest: tar_gz_name = f"{target}-{basename}.tar.gz".
ArchiveName(target, basename) == <<target, basename, "tar.gz">>
\* common.py collect_and_move_artifacts: f"{target}-manifest.json".
ManifestName(target) == <<target, "manifest.json">>
manifest_filename == ManifestName(Target)

\* "app" is a release file of the build (prefix target), "rt" is an additional
\* file of the platform (prefix target_any).
PrefixOf(basename) == IF basename = "app" THEN Target ELSE TargetAny
UriOf(basename) == ArchiveName(PrefixOf(basename), basename)
Uris == {UriOf(b) : b \in Basenames}
AssetNames == {manifest_filename} \cup Uris

(***************************************************************************)
(* Manifests: {"files": {basename: {"sha256": .., "uri": ..}}}.  A Python  *)
(* dict is a function; two dicts are equal when they are the same function.*)
(***************************************************************************)
FileInfo(basename, sha256) == [sha256 |-> sha256, uri |-> UriOf(basename)]
Manifests ==
    {[files |-> [b \in S |-> FileInfo(b, h[b])]] :
        S \in SUBSET Basenames, h \in [Basenames -> Hashes]}

\* files.items() in the order of the manifest file.
Items(m) == SelectSeq(FileOrder, LAMBDA b : b \in DOMAIN m.files)
UrisOf(m) == {m.files[b].uri : b \in DOMAIN m.files}

VARIABLES
    manifest,         \* the local manifest (json.load of *-manifest.json)
    archives,         \* uris whose archive exists in artifacts_dir
    assets,           \* the release: asset name -> content, or NoAsset
    pc,               \* where the current upload run stands
    force,            \* --force
    dry_run,          \* --dry-run
    existing_assets,  \* names returned by get_release_assets at the start
    remote_manifest,  \* local variable of compare_and_upload
    idx,              \* position of the for loop in Items(manifest)
    uploaded,         \* local variable of compare_and_upload
    skipped,          \* local variable of compare_and_upload
    plan,             \* the decision printed for each object
    calls,            \* the delete_asset / upload_asset calls of the run
    error,            \* the exception that ended the run, if any
    assets0,          \* the release as it was when the run started
    prev,             \* how the previous upload run ended, and on what
    builds,           \* builds made since the previous upload run
    faults            \* whether requests to the release can fail

\* scripts/upload_all.py and the start of scripts/upload (main, lines 261-306).
VARIABLES
    token,            \* load_github_token() returns a token
    release,          \* get_release_by_tag: "found", "missing" (404), "error"
    dirs,             \* build/<triple>: release_artifacts there, its manifests
    apc,              \* where upload_all stands ("off": not running)
    target_triples,   \* find_target_triples()
    tidx,             \* position of upload_all's loop in target_triples
    cpc,              \* where the scripts.upload process stands
    ctarget,          \* its --target-triple
    cerr,             \* what ended it with a non-zero status
    ccalls,           \* mutating calls its compare_and_upload has made
    log               \* processes started and ended, calls made, in order

\* scripts/build/common.py: build_project.
VARIABLES
    art,              \* build/<target>/release_artifacts: the archive of each
                      \* basename ("absent", "truncated", or the digest of
                      \* the file it packs)
    written,          \* build/<target>/release_artifacts/<target>-manifest.json
    bpc,              \* where build_project stands
    bvar,             \* position of its loop in Variants
    bfiles,           \* release_files + additional_files of the variant
    bidx,             \* position of add_to_manifest in bfiles
    bmanifest,        \* local variable manifest of collect_and_move_artifacts
    lastop            \* what add_to_manifest did with the last file

uploadVars == <<manifest, archives, assets, pc, force, dry_run,
                existing_assets, remote_manifest, idx, uploaded, skipped,
                plan, calls, error, assets0, prev, builds>>
allVars == <<token, release, dirs, apc, target_triples, tidx, cpc, ctarget,
             cerr, ccalls, log>>

buildVars == <<art, written, bpc, bvar, bfiles, bidx, bmanifest, lastop>>

\* What the steps of compare_and_upload leave alone.
others == <<faults, allVars, buildVars>>

vars == <<uploadVars, others>>

Running == {"manifest", "manifest_upload", "files", "file_upload"}
Ended == {"done", "failed", "interrupted"}
NoPlan == [n \in AssetNames |-> "none"]

(***************************************************************************)
(* The release (GitHub): assets are indexed by name (get_release_assets),  *)
(* and the upload endpoint refuses a name that is already an asset of the  *)
(* release (HTTP 422), which raise_for_status turns into an exception.     *)
(***************************************************************************)
\* The value of a name that is no asset of the release.
NoAsset(name) == IF name = manifest_filename THEN [absent |-> TRUE] ELSE "absent"

\* What a release can hold: a manifest document under the manifest's name, an
\* archive (identified by the digest of the file it packs) under a uri.
Releases ==
    {[n \in AssetNames |-> IF n = manifest_filename THEN d ELSE f[n]] :
        d \in Manifests \cup {NoAsset(manifest_filename)},
        f \in [Uris -> Hashes \cup {"absent"}]}

get_release_assets(a) == {n \in AssetNames : a[n] # NoAsset(n)}

\* The bytes upload_asset reads from file_path.
FileData(m, name) ==
    IF name = manifest_filename THEN m
    ELSE LET b == CHOOSE b \in DOMAIN m.files : m.files[b].uri = name
         IN  m.files[b].sha256

\* delete_asset: nothing in a dry run (line 70), else the asset is gone.
delete_asset(a, dry, name) ==
    IF dry THEN a ELSE [a EXCEPT ![name] = NoAsset(name)]

\* upload_asset is refused when the name is still an asset of the release.
upload_refused(a, dry, name) == ~dry /\ a[name] # NoAsset(name)

\* upload_asset: nothing in a dry run (line 81), else the asset is created.
upload_asset(a, dry, name, data) ==
    IF dry THEN a ELSE [a EXCEPT ![name] = data]

\* The key orders a JSON object with the keys S can be written in.
Orders(S) ==
    {o \in [1..Cardinality(S) -> S] : \A i, j \in DOMAIN o : o[i] = o[j] => i = j}

\* json.dump(manifest, f, indent=..): the text of a manifest, its entries in
\* the key order `order`, laid out with `indent` spaces.
json_dumps(m, order, indent) ==
    [indent |-> indent,
     files |-> [i \in DOMAIN order |-> <<order[i], m.files[order[i]]>>]]

\* The texts that hold the document m.
Serialisations(m) ==
    {json_dumps(m, o, ind) : o \in Orders(DOMAIN m.files), ind \in {0, 4}}

\* response.json(): the dict of the text; the layout is dropped, and of two
\* members with the same key the later one stands.
json_loads(text) ==
    LET pairs == text.files
        keys == {pairs[i][1] : i \in DOMAIN pairs}
        last(k) == CHOOSE i \in DOMAIN pairs :
                      /\ pairs[i][1] = k
                      /\ \A j \in DOMAIN pairs : pairs[j][1] = k => j <= i
    IN  [files |-> [k \in keys |-> pairs[last(k)][2]]]

\* download_manifest: the parsed document of the text that is served, or None
\* when the request or the parse fails.
download_manifest(text, ok) == IF ok THEN json_loads(text) ELSE None

\* RemoteHash without the test of line 220 (`uri == asset_name`): the digest of
\* the first entry of the remote manifest, whatever its uri.
RemoteHashFirstEntry(rm, asset_name) ==
    IF rm = None THEN NoHash
    ELSE IF Items(rm) = <<>> THEN NoHash ELSE rm.files[Head(Items(rm))].sha256

\* RemoteHash with line 220 comparing the entry's key (remote_filename), not
\* its uri, with asset_name: no entry is ever found.
RemoteHashByFilename(rm, asset_name) ==
    IF rm = None THEN NoHash
    ELSE LET hit == SelectSeq(Items(rm), LAMBDA b : <<b>> = asset_name)
         IN  IF hit = <<>> THEN NoHash ELSE rm.files[Head(hit)].sha256

\* Lines 216-222: the sha256 of the first entry of the remote manifest whose
\* uri is asset_name, None when there is none or no remote manifest.
RemoteHash(rm, asset_name) ==
    IF rm = None THEN NoHash
    ELSE LET hit == SelectSeq(Items(rm), LAMBDA b : rm.files[b].uri = asset_name)
         IN  IF hit = <<>> THEN NoHash ELSE rm.files[Head(hit)].sha256

\* Line 185 with the comparison left out: `if remote_manifest:`.
ManifestMatchesAnyRemote(rm, m) == rm # None

\* Line 185: remote_manifest and remote_manifest == manifest.
ManifestMatches(rm, m) == rm # None /\ rm = m

\* Line 224 with the comparison left out: `if remote_hash:`.
HashMatchesAnyRemote(remote_hash, local_hash) == remote_hash # NoHash

\* Line 224 with the comparison inverted: `remote_hash != local_hash`.
HashMatchesInverted(remote_hash, local_hash) ==
    remote_hash # NoHash /\ remote_hash # local_hash

\* Line 224: remote_hash and remote_hash == local_hash.
HashMatches(remote_hash, local_hash) ==
    remote_hash # NoHash /\ remote_hash = local_hash

\* build_project is not running (the build directories are not looked at).
BuildOff ==
    /\ art = <<>>
    /\ written = <<>>
    /\ bpc = "off"
    /\ bvar = 1
    /\ bfiles = <<>>
    /\ bidx = 1
    /\ bmanifest = [files |-> <<>>]
    /\ lastop = [basename |-> "none", op |-> "none"]

\* upload_all is not running and no scripts.upload process was started by it.
AllOff ==
    /\ token = TRUE
    /\ release = "found"
    /\ dirs = <<>>
    /\ apc = "off"
    /\ target_triples = <<>>
    /\ tidx = 1
    /\ cpc = "off"
    /\ ctarget = "none"
    /\ cerr = "none"
    /\ ccalls = 0
    /\ log = <<>>

(***************************************************************************)
(* The state between two runs.                                             *)
(***************************************************************************)
\* A release as completed runs leave it: empty, or with a manifest that tells
\* the truth (every asset it lists is absent or packs the file with the
\* recorded digest).
Consistent(a) ==
    LET rm == a[manifest_filename] IN
    IF rm = NoAsset(manifest_filename)
    THEN get_release_assets(a) = {}
    ELSE \A b \in DOMAIN rm.files :
            a[rm.files[b].uri] \in {NoAsset(rm.files[b].uri), rm.files[b].sha256}

\* What is remembered of a run once the next one starts (or a build is made):
\* how it ended, what it decided, the local files it worked on, and whether
\* the release it started on was consistent.
Summary ==
    [pc |-> pc, force |-> force, dry_run |-> dry_run,
     remote_manifest |-> remote_manifest, plan |-> plan,
     uploaded |-> uploaded, skipped |-> skipped,
     manifest |-> manifest, archives |-> archives,
     consistent0 |-> Consistent(assets0)]

Init ==
    /\ manifest \in Manifests
    /\ archives \in SUBSET UrisOf(manifest)
    /\ assets \in Releases
    /\ pc = "idle"
    /\ force = FALSE
    /\ dry_run = FALSE
    /\ existing_assets = {}
    /\ remote_manifest = Unbound
    /\ idx = 1
    /\ uploaded = 0
    /\ skipped = 0
    /\ plan = NoPlan
    /\ calls = <<>>
    /\ error = "none"
    /\ assets0 = assets
    /\ prev = [pc |-> "idle", force |-> FALSE, dry_run |-> FALSE,
               remote_manifest |-> Unbound, plan |-> NoPlan,
               uploaded |-> 0, skipped |-> 0,
               manifest |-> manifest, archives |-> archives,
               consistent0 |-> Consistent(assets)]
    /\ builds = 0
    /\ faults = FALSE
    /\ AllOff
    /\ BuildOff

\* build_project after the content of one built file has changed:
\* collect_and_move_artifacts recompresses it (lines 149-159) and
\* write_manifest records its new digest; the other entries stay as they are.
Rebuild(basename, sha256) ==
    /\ pc \in {"done", "built"}
    /\ builds < MaxBuilds
    /\ basename \in DOMAIN manifest.files
    /\ sha256 # manifest.files[basename].sha256
    /\ manifest' = [manifest EXCEPT !.files[basename].sha256 = sha256]
    /\ archives' = archives \cup {manifest.files[basename].uri}
    /\ prev' = IF pc = "done" THEN Summary ELSE prev
    /\ pc' = "built"
    /\ builds' = builds + 1
    /\ UNCHANGED <<assets, force, dry_run, existing_assets, remote_manifest,
                   idx, uploaded, skipped, plan, calls, error, assets0>>
    /\ UNCHANGED others

\* main, lines 261-311: the arguments are parsed, the manifest is loaded, the
\* release's assets are listed and compare_and_upload is entered.
StartPass(f, d) ==
    /\ pc \in {"idle", "built"} \cup Ended
    /\ prev' = IF pc \in Ended THEN Summary ELSE prev
    /\ builds' = 0
    /\ force' = f
    /\ dry_run' = d
    /\ existing_assets' = get_release_assets(assets)
    /\ remote_manifest' = Unbound
    /\ idx' = 1
    /\ uploaded' = 0
    /\ skipped' = 0
    /\ plan' = NoPlan
    /\ calls' = <<>>
    /\ error' = "none"
    /\ assets0' = assets
    /\ pc' = "manifest"
    /\ UNCHANGED <<manifest, archives, assets>>
    /\ UNCHANGED others

(***************************************************************************)
(* The two mutating calls, as compare_and_upload sees them: the call       *)
(* returns, or raise_for_status raises (the release refuses the upload)    *)
(* and the run ends.                                                       *)
(***************************************************************************)
\* How a request of the run can end: it is answered, or (a transport error,
\* a 401, a 403, a 5xx) raise_for_status raises.  A dry run sends none.
Responses(fl, dry) == IF fl /\ ~dry THEN {"ok", "HTTPError"} ELSE {"ok"}

\* CallDelete with the exception of a failed request caught and passed over:
\* the run goes on with the upload.
CallDeleteSwallow(name, next) ==
    /\ calls' = Append(calls, <<"delete_asset", name>>)
    /\ \E resp \in Responses(faults, dry_run) :
          IF resp = "ok"
          THEN /\ assets' = delete_asset(assets, dry_run, name)
               /\ pc' = next
               /\ error' = error
          ELSE /\ assets' = assets
               /\ pc' = next
               /\ error' = resp

\* uploader.delete_asset(existing_asset["id"], name), then go to `next`.
CallDelete(name, next) ==
    /\ calls' = Append(calls, <<"delete_asset", name>>)
    /\ \E resp \in Responses(faults, dry_run) :
          IF resp = "ok"
          THEN /\ assets' = delete_asset(assets, dry_run, name)
               /\ pc' = next
               /\ error' = error
          ELSE /\ assets' = assets
               /\ pc' = "failed"
               /\ error' = resp

\* CallUpload without the `uploaded += 1` of lines 192, 196 and 238.
CallUploadUncounted(name, next, i) ==
    /\ calls' = Append(calls, <<"upload_asset", name>>)
    /\ \E resp \in Responses(faults, dry_run) :
          IF resp # "ok"
          THEN /\ assets' = assets
               /\ pc' = "failed"
               /\ error' = resp
               /\ UNCHANGED <<uploaded, idx>>
          ELSE IF upload_refused(assets, dry_run, name)
          THEN /\ assets' = assets
               /\ pc' = "failed"
               /\ error' = "AlreadyExists"
               /\ UNCHANGED <<uploaded, idx>>
          ELSE /\ assets' = upload_asset(assets, dry_run, name,
                                         FileData(manifest, name))
               /\ uploaded' = uploaded
               /\ idx' = i
               /\ pc' = next
               /\ error' = error

\* uploader.upload_asset(.., path, name); uploaded += 1, then go to `next`
\* with the loop at position i.
CallUpload(name, next, i) ==
    /\ calls' = Append(calls, <<"upload_asset", name>>)
    /\ \E resp \in Responses(faults, dry_run) :
          IF resp # "ok"
          THEN /\ assets' = assets
               /\ pc' = "failed"
               /\ error' = resp
               /\ UNCHANGED <<uploaded, idx>>
          ELSE IF upload_refused(assets, dry_run, name)
          THEN /\ assets' = assets
               /\ pc' = "failed"
               /\ error' = "AlreadyExists"
               /\ UNCHANGED <<uploaded, idx>>
          ELSE /\ assets' = upload_asset(assets, dry_run, name,
                                         FileData(manifest, name))
               /\ uploaded' = uploaded + 1
               /\ idx' = i
               /\ pc' = next
               /\ error' = error

(***************************************************************************)
(* compare_and_upload.                                                     *)
(***************************************************************************)
\* Lines 180 and 211: `name in existing_assets and not force`.
MustCompare(name, existing, f) == name \in existing /\ ~f

\* Line 206 without the test: every entry is taken to have its archive.
LocalExistsAlways(a, asset_name) == TRUE

\* Line 206: local_path.exists().
LocalExists(a, asset_name) == asset_name \in a

\* The entry the for loop of line 201 is at.
CurrentFile == Items(manifest)[idx]

\* Lines 176-196, up to and including the first call: the manifest is
\* compared with the remote one and skipped, or the remote one is deleted,
\* or (no remote one, or --force) the local one is uploaded at once.
CheckManifest ==
    /\ pc = "manifest"
    /\ IF MustCompare(manifest_filename, existing_assets, force)
       THEN \E ok \in BOOLEAN,
                 text \in Serialisations(assets[manifest_filename]) :
              LET rm == download_manifest(text, ok) IN
              /\ remote_manifest' = rm
              /\ IF ManifestMatches(rm, manifest)
                 THEN /\ skipped' = skipped + 1
                      /\ plan' = [plan EXCEPT ![manifest_filename] = "skip"]
                      /\ pc' = "files"
                      /\ UNCHANGED <<assets, calls, error>>
                 ELSE /\ plan' = [plan EXCEPT ![manifest_filename] = "replace"]
                      /\ CallDelete(manifest_filename, "manifest_upload")
                      /\ UNCHANGED skipped
              /\ UNCHANGED <<uploaded, idx>>
       ELSE /\ plan' = [plan EXCEPT ![manifest_filename] = "upload"]
            /\ CallUpload(manifest_filename, "files", idx)
            /\ UNCHANGED <<remote_manifest, skipped>>
    /\ UNCHANGED <<manifest, archives, force, dry_run, existing_assets,
                   assets0, prev, builds>>
    /\ UNCHANGED others

\* Lines 191-192: the upload that follows the delete of the remote manifest.
UploadManifest ==
    /\ pc = "manifest_upload"
    /\ CallUpload(manifest_filename, "files", idx)
    /\ UNCHANGED <<manifest, archives, force, dry_run, existing_assets,
                   remote_manifest, skipped, plan, assets0, prev, builds>>
    /\ UNCHANGED others

\* Lines 201-238 for one entry, up to and including its first call.
CheckFile ==
    /\ pc = "files"
    /\ idx <= Len(Items(manifest))
    /\ LET file_info == manifest.files[CurrentFile]
           asset_name == file_info.uri
           local_hash == file_info.sha256
       IN
       IF ~LocalExists(archives, asset_name)
       THEN \* line 208: continue
            /\ idx' = idx + 1
            /\ UNCHANGED <<assets, pc, uploaded, skipped, plan, calls, error>>
       ELSE IF MustCompare(asset_name, existing_assets, force)
       THEN IF remote_manifest = Unbound
            THEN \* line 217 reads a local variable that was never assigned
                 /\ pc' = "failed"
                 /\ error' = "UnboundLocalError"
                 /\ UNCHANGED <<assets, idx, uploaded, skipped, plan, calls>>
            ELSE IF HashMatches(RemoteHash(remote_manifest, asset_name),
                                local_hash)
            THEN \* line 227: continue
                 /\ skipped' = skipped + 1
                 /\ plan' = [plan EXCEPT ![asset_name] = "skip"]
                 /\ idx' = idx + 1
                 /\ UNCHANGED <<assets, pc, uploaded, calls, error>>
            ELSE /\ plan' = [plan EXCEPT ![asset_name] = "replace"]
                 /\ CallDelete(asset_name, "file_upload")
                 /\ UNCHANGED <<idx, uploaded, skipped>>
       ELSE /\ plan' = [plan EXCEPT ![asset_name] = "upload"]
            /\ CallUpload(asset_name, "files", idx + 1)
            /\ UNCHANGED skipped
    /\ UNCHANGED <<manifest, archives, force, dry_run, existing_assets,
                   remote_manifest, assets0, prev, builds>>
    /\ UNCHANGED others

\* UploadFile with upload_asset moving the file away instead of reading it:
\* the archive is gone from artifacts_dir once it is uploaded.
UploadFileConsuming ==
    /\ pc = "file_upload"
    /\ CallUpload(manifest.files[CurrentFile].uri, "files", idx + 1)
    /\ archives' = archives \ {manifest.files[CurrentFile].uri}
    /\ UNCHANGED <<manifest, force, dry_run, existing_assets,
                   remote_manifest, skipped, plan, assets0, prev, builds>>
    /\ UNCHANGED others

\* Lines 237-238: the upload that follows the delete of the entry's asset.
UploadFile ==
    /\ pc = "file_upload"
    /\ CallUpload(manifest.files[CurrentFile].uri, "files", idx + 1)
    /\ UNCHANGED <<manifest, archives, force, dry_run, existing_assets,
                   remote_manifest, skipped, plan, assets0, prev, builds>>
    /\ UNCHANGED others

\* Line 240: return uploaded, skipped (main prints the summary).
Return ==
    /\ pc = "files"
    /\ idx > Len(Items(manifest))
    /\ pc' = "done"
    /\ UNCHANGED <<manifest, archives, assets, force, dry_run,
                   existing_assets, remote_manifest, idx, uploaded, skipped,
                   plan, calls, error, assets0, prev, builds>>
    /\ UNCHANGED others

\* The process is stopped (killed, Ctrl-C) between two calls of a live run.
Interrupt ==
    /\ pc \in Running
    /\ ~dry_run
    /\ pc' = "interrupted"
    /\ UNCHANGED <<manifest, archives, assets, force, dry_run,
                   existing_assets, remote_manifest, idx, uploaded, skipped,
                   plan, calls, error, assets0, prev, builds>>
    /\ UNCHANGED others

Next ==
    \/ \E f \in BOOLEAN, d \in BOOLEAN : StartPass(f, d)
    \/ CheckManifest
    \/ UploadManifest
    \/ CheckFile
    \/ UploadFile
    \/ Return
    \/ Interrupt
    \/ \E b \in Basenames, h \in Hashes : Rebuild(b, h)

Spec == Init /\ [][Next]_vars

(***************************************************************************)
(* Runs against a release whose requests can fail.  The local files are    *)
(* complete (both entries, both archives) and stay as they are; the        *)
(* release is any release.                                                 *)
(***************************************************************************)
InitFault ==
    /\ manifest \in {m \in Manifests : DOMAIN m.files = Basenames}
    /\ archives = UrisOf(manifest)
    /\ assets \in Releases
    /\ pc = "idle"
    /\ force = FALSE
    /\ dry_run = FALSE
    /\ existing_assets = {}
    /\ remote_manifest = Unbound
    /\ idx = 1
    /\ uploaded = 0
    /\ skipped = 0
    /\ plan = NoPlan
    /\ calls = <<>>
    /\ error = "none"
    /\ assets0 = assets
    /\ prev = [pc |-> "idle", force |-> FALSE, dry_run |-> FALSE,
               remote_manifest |-> Unbound, plan |-> NoPlan,
               uploaded |-> 0, skipped |-> 0,
               manifest |-> manifest, archives |-> archives,
               consistent0 |-> Consistent(assets)]
    /\ builds = 0
    /\ faults = TRUE
    /\ AllOff
    /\ BuildOff

NextFault ==
    \/ \E f \in BOOLEAN, d \in BOOLEAN : StartPass(f, d)
    \/ CheckManifest
    \/ UploadManifest
    \/ CheckFile
    \/ UploadFile
    \/ Return
    \/ Interrupt

SpecFault == InitFault /\ [][NextFault]_vars

(***************************************************************************)
(* scripts/upload_all.py: one scripts.upload process per discovered target *)
(* triple, one after another.  Of the process, main's checks (lines        *)
(* 263-306) are followed test by test; its compare_and_upload, which the   *)
(* actions above follow call by call, is here the calls it makes, one that *)
(* fails, and its return.  The runs are live: a dry run makes no call.     *)
(***************************************************************************)
\* Files matching *-manifest.json that a release_artifacts directory may hold.
MaxManifests == 2
\* Mutating calls (delete_asset, upload_asset) of one compare_and_upload.
MaxCalls == 2

\* The directories of build/, in the order iterdir() yields them.
Triples == <<get_target("sm86"), get_target("sm89")>>
TripleSet == {Triples[i] : i \in DOMAIN Triples}

\* build/<triple>: whether release_artifacts exists, how many files in it
\* match *-manifest.json, and whether the first of them loads (json.load
\* succeeds and the document is not empty).
DirStates ==
    {d \in [artifacts : BOOLEAN, manifests : 0..MaxManifests, readable : BOOLEAN] :
        /\ ~d.artifacts => d.manifests = 0
        /\ d.manifests = 0 => ~d.readable}

\* upload_all.py find_target_triples: the directories with release_artifacts.
find_target_triples(ds) == SelectSeq(Triples, LAMBDA t : ds[t].artifacts)

\* main, lines 263-298: what makes the process exit before it lists the
\* assets, "none" when it gets through.  Several manifest files are a warning
\* (load_manifest, line 120); the first one is used (lines 123 and 284).
Precondition(tok, d, rel) ==
    IF ~tok THEN "token"
    ELSE IF ~d.artifacts THEN "artifacts_dir"
    ELSE IF d.manifests = 0 THEN "no_manifest"
    ELSE IF ~d.readable THEN "manifest_unreadable"
    ELSE IF rel = "missing" THEN "release"
    ELSE IF rel = "error" THEN "HTTPError"
    ELSE "none"

\* No compare_and_upload is under way in the model of the single target.
UploadOff ==
    /\ manifest = [files |-> <<>>]
    /\ archives = {}
    /\ assets = [n \in AssetNames |-> NoAsset(n)]
    /\ pc = "idle"
    /\ force = FALSE
    /\ dry_run = FALSE
    /\ existing_assets = {}
    /\ remote_manifest = Unbound
    /\ idx = 1
    /\ uploaded = 0
    /\ skipped = 0
    /\ plan = NoPlan
    /\ calls = <<>>
    /\ error = "none"
    /\ assets0 = assets
    /\ prev = [pc |-> "idle", force |-> FALSE, dry_run |-> FALSE,
               remote_manifest |-> Unbound, plan |-> NoPlan,
               uploaded |-> 0, skipped |-> 0,
               manifest |-> manifest, archives |-> archives,
               consistent0 |-> TRUE]
    /\ builds = 0
    /\ faults = FALSE

\* What the steps of upload_all and of its processes leave alone.
notAll == <<uploadVars, faults, buildVars>>

InitAll ==
    /\ UploadOff
    /\ BuildOff
    /\ token \in BOOLEAN
    /\ release \in {"found", "missing", "error"}
    /\ dirs \in [TripleSet -> DirStates]
    /\ apc = "off"
    /\ target_triples = <<>>
    /\ tidx = 1
    /\ cpc = "off"
    /\ ctarget = "none"
    /\ cerr = "none"
    /\ ccalls = 0
    /\ log = <<>>

\* python -m scripts.upload --target-triple t, started by hand.
RunUpload(t) ==
    /\ apc = "off" /\ cpc = "off" /\ log = <<>>
    /\ cpc' = "main"
    /\ ctarget' = t
    /\ log' = <<<<"start", t, 0>>>>
    /\ UNCHANGED <<token, release, dirs, apc, target_triples, tidx, cerr, ccalls>>
    /\ UNCHANGED notAll

\* upload_all main, lines 43-53.
RunUploadAll ==
    /\ apc = "off" /\ cpc = "off" /\ log = <<>>
    /\ target_triples' = find_target_triples(dirs)
    /\ apc' = IF target_triples' = <<>> THEN "exit1" ELSE "loop"
    /\ UNCHANGED <<token, release, dirs, tidx, cpc, ctarget, cerr, ccalls, log>>
    /\ UNCHANGED notAll

\* upload_all main, lines 56-66: subprocess.run starts the next target's
\* process (and waits for it).
SpawnChild ==
    /\ apc = "loop" /\ cpc = "off"
    /\ tidx <= Len(target_triples)
    /\ cpc' = "main"
    /\ ctarget' = target_triples[tidx]
    /\ ccalls' = 0
    /\ cerr' = "none"
    /\ log' = Append(log, <<"start", target_triples[tidx], 0>>)
    /\ UNCHANGED <<token, release, dirs, apc, target_triples, tidx>>
    /\ UNCHANGED notAll

\* scripts.upload main, lines 261-311: sys.exit(1) (or an exception) at the
\* first check that fails, else compare_and_upload is entered.
ChildMain ==
    /\ cpc = "main"
    /\ LET err == Precondition(token, dirs[ctarget], release) IN
       IF err # "none"
       THEN /\ cpc' = "exit1"
            /\ cerr' = err
            /\ log' = Append(log, <<"exit", ctarget, 1>>)
       ELSE /\ cpc' = "compare"
            /\ UNCHANGED <<cerr, log>>
    /\ UNCHANGED <<token, release, dirs, apc, target_triples, tidx, ctarget, ccalls>>
    /\ UNCHANGED notAll

\* One delete_asset or upload_asset call of compare_and_upload: it changes
\* the release, or raise_for_status raises and the process ends.
ChildCall ==
    /\ cpc = "compare"
    /\ ccalls < MaxCalls
    /\ \E resp \in Responses(TRUE, FALSE) :
          IF resp = "ok"
          THEN /\ ccalls' = ccalls + 1
               /\ log' = Append(log, <<"call", ctarget, ccalls + 1>>)
               /\ UNCHANGED <<cpc, cerr>>
          ELSE /\ cpc' = "exit1"
               /\ cerr' = resp
               /\ log' = Append(log, <<"exit", ctarget, 1>>)
               /\ UNCHANGED ccalls
    /\ UNCHANGED <<token, release, dirs, apc, target_triples, tidx, ctarget>>
    /\ UNCHANGED notAll

\* compare_and_upload returns, main prints the summary (lines 313-320) and the
\* process ends with status 0.
ChildReturn ==
    /\ cpc = "compare"
    /\ cpc' = "exit0"
    /\ log' = Append(log, <<"exit", ctarget, 0>>)
    /\ UNCHANGED <<token, release, dirs, apc, target_triples, tidx, ctarget,
                   cerr, ccalls>>
    /\ UNCHANGED notAll

\* Reap without the test of line 67: the loop goes on whatever the status.
ReapIgnoreStatus ==
    /\ apc = "loop" /\ cpc \in {"exit0", "exit1"}
    /\ tidx' = tidx + 1
    /\ cpc' = "off"
    /\ UNCHANGED <<token, release, dirs, apc, target_triples, ctarget, cerr,
                   ccalls, log>>
    /\ UNCHANGED notAll

\* upload_all main, lines 66-69: the process has ended; a non-zero status
\* ends upload_all with status 1, else the loop goes on.
Reap ==
    /\ apc = "loop" /\ cpc \in {"exit0", "exit1"}
    /\ IF cpc = "exit1"
       THEN apc' = "exit1" /\ tidx' = tidx
       ELSE apc' = apc /\ tidx' = tidx + 1
    /\ cpc' = "off"
    /\ UNCHANGED <<token, release, dirs, target_triples, ctarget, cerr, ccalls, log>>
    /\ UNCHANGED notAll

\* upload_all main, line 71: "All uploads completed.", status 0.
AllDone ==
    /\ apc = "loop" /\ cpc = "off"
    /\ tidx > Len(target_triples)
    /\ apc' = "exit0"
    /\ UNCHANGED <<token, release, dirs, target_triples, tidx, cpc, ctarget,
                   cerr, ccalls, log>>
    /\ UNCHANGED notAll

NextAll ==
    \/ \E t \in TripleSet : RunUpload(t)
    \/ RunUploadAll
    \/ SpawnChild
    \/ ChildMain
    \/ ChildCall
    \/ ChildReturn
    \/ Reap
    \/ AllDone

SpecAll == InitAll /\ [][NextAll]_vars

(***************************************************************************)
(* scripts/build/common.py: build_project builds the variants one after    *)
(* another; for each, collect_and_move_artifacts packs every release file  *)
(* ("app", from <build_dir>/bin) and every additional file ("rt") into     *)
(* release_artifacts, reusing an archive it takes to be up to date, and    *)
(* write_manifest writes the manifest.  A build can stop in the middle of  *)
(* compress, which leaves a truncated archive.                             *)
(***************************************************************************)
\* platform_cuda.py get_variants (two of them).
Variants == <<"sm86", "sm89">>
VariantSet == {Variants[i] : i \in DOMAIN Variants}

\* What a file of a build can be: not there, or there with some content.
Contents == Hashes \cup {"missing"}

\* Line 162: manifest["files"][basename] = {"sha256": sha256, "uri": uri}.
BuildInfo(target, basename, sha256) ==
    [sha256 |-> sha256, uri |-> ArchiveName(target, basename)]

\* get_release_files(build_dir), then the additional files: the files that
\* add_to_manifest goes through, each with the target that prefixes its name
\* (lines 164-165) and the digest compute_sha256 finds (line 149).
Collected(target, target_any, app, rt) ==
    (IF app = "missing" THEN <<>>
     ELSE <<[basename |-> "app", target |-> target, sha256 |-> app]>>)
    \o
    (IF rt = "missing" THEN <<>>
     ELSE <<[basename |-> "rt", target |-> target_any, sha256 |-> rt]>>)

\* Lines 140-167 as a whole: the manifest collect_and_move_artifacts returns
\* for a variant whose release file and additional file have these contents.
BuiltManifest(variant_name, app, rt) ==
    LET files == Collected(get_target(variant_name), get_target("any"), app, rt)
        info(b) == LET f == files[CHOOSE i \in DOMAIN files : files[i].basename = b]
                   IN  BuildInfo(f.target, f.basename, f.sha256)
    IN  [files |-> [b \in {files[i].basename : i \in DOMAIN files} |-> info(b)]]

\* Line 152: existing_manifest.get("files", {}).get(basename, {}).get("sha256").
RecordedSha(existing_manifest, basename) ==
    IF existing_manifest = None THEN NoHash
    ELSE IF basename \in DOMAIN existing_manifest.files
         THEN existing_manifest.files[basename].sha256
         ELSE NoHash

\* Line 153 without os.path.exists(tar_gz_path): the digest alone decides.
UpToDateDigestOnly(archive, sha256, curr_sha256) == sha256 = curr_sha256

\* Line 153: os.path.exists(tar_gz_path) and sha256 == curr_sha256.
UpToDate(archive, sha256, curr_sha256) ==
    archive # "absent" /\ sha256 = curr_sha256

\* What the steps of a build leave alone.
notBuild == <<uploadVars, faults, allVars>>

\* Before the first build: no release_artifacts directory has anything in it.
InitBuild ==
    /\ UploadOff
    /\ AllOff
    /\ art = [v \in VariantSet |-> [b \in Basenames |-> "absent"]]
    /\ written = [v \in VariantSet |-> None]
    /\ bpc = "idle"
    /\ bvar = 1
    /\ bfiles = <<>>
    /\ bidx = 1
    /\ bmanifest = [files |-> <<>>]
    /\ lastop = [basename |-> "none", op |-> "none"]

\* build_project is started (again).
StartBuild ==
    /\ bpc \in {"idle", "done", "failed", "crashed"}
    /\ bpc' = "variant"
    /\ bvar' = 1
    /\ bfiles' = <<>>
    /\ bidx' = 1
    /\ bmanifest' = [files |-> <<>>]
    /\ lastop' = [basename |-> "none", op |-> "none"]
    /\ UNCHANGED <<art, written>>
    /\ UNCHANGED notBuild

\* Lines 209-229 and 126-140 for one variant: the project is built (cmake
\* fails: sys.exit(1)), which leaves bin/app with some content or without the
\* file, the additional files are resolved, and collect_and_move_artifacts
\* starts on an empty manifest.
BuildVariant ==
    /\ bpc = "variant"
    /\ bvar <= Len(Variants)
    /\ \E ok \in BOOLEAN, app \in Contents, rt \in Contents :
          IF ok
          THEN /\ bfiles' = Collected(get_target(Variants[bvar]),
                                      get_target("any"), app, rt)
               /\ bpc' = "collect"
          ELSE /\ bfiles' = <<>>
               /\ bpc' = "failed"
    /\ bidx' = 1
    /\ bmanifest' = [files |-> <<>>]
    /\ lastop' = [basename |-> "none", op |-> "none"]
    /\ UNCHANGED <<art, written, bvar>>
    /\ UNCHANGED notBuild

\* Lines 143-162 for one file: the archive is kept, or removed if there and
\* written anew by compress, which can be cut short (the process dies).
AddFile ==
    /\ bpc = "collect"
    /\ bidx <= Len(bfiles)
    /\ LET v == Variants[bvar]
           f == bfiles[bidx]
           curr_sha256 == RecordedSha(written[v], f.basename)
       IN
       IF UpToDate(art[v][f.basename], f.sha256, curr_sha256)
       THEN /\ lastop' = [basename |-> f.basename, op |-> "kept"]
            /\ bmanifest' = [files |-> [b \in DOMAIN bmanifest.files \cup {f.basename} |->
                                IF b = f.basename
                                THEN BuildInfo(f.target, f.basename, f.sha256)
                                ELSE bmanifest.files[b]]]
            /\ bidx' = bidx + 1
            /\ UNCHANGED <<art, bpc>>
       ELSE \E whole \in BOOLEAN :
              IF whole
              THEN /\ art' = [art EXCEPT ![v][f.basename] = f.sha256]
                   /\ lastop' = [basename |-> f.basename, op |-> "compressed"]
                   /\ bmanifest' =
                         [files |-> [b \in DOMAIN bmanifest.files \cup {f.basename} |->
                             IF b = f.basename
                             THEN BuildInfo(f.target, f.basename, f.sha256)
                             ELSE bmanifest.files[b]]]
                   /\ bidx' = bidx + 1
                   /\ UNCHANGED bpc
              ELSE /\ art' = [art EXCEPT ![v][f.basename] = "truncated"]
                   /\ lastop' = [basename |-> f.basename, op |-> "cut"]
                   /\ bpc' = "crashed"
                   /\ UNCHANGED <<bmanifest, bidx>>
    /\ UNCHANGED <<written, bvar, bfiles>>
    /\ UNCHANGED notBuild

\* WriteManifest moved into the loop of add_to_manifest: the manifest as far
\* as it has got is written (and the variant taken to be done) at any point of
\* collect_and_move_artifacts.
WriteManifestEarly ==
    /\ bpc = "collect"
    /\ written' = [written EXCEPT ![Variants[bvar]] = bmanifest]
    /\ bvar' = bvar + 1
    /\ bpc' = "variant"
    /\ UNCHANGED <<art, bfiles, bidx, bmanifest, lastop>>
    /\ UNCHANGED notBuild

\* Lines 167 and 236 (write_manifest, lines 170-178): the manifest of the
\* variant is written and the loop goes to the next variant.
WriteManifest ==
    /\ bpc = "collect"
    /\ bidx > Len(bfiles)
    /\ written' = [written EXCEPT ![Variants[bvar]] = bmanifest]
    /\ bvar' = bvar + 1
    /\ bpc' = "variant"
    /\ UNCHANGED <<art, bfiles, bidx, bmanifest, lastop>>
    /\ UNCHANGED notBuild

\* The loop of line 209 is through: build_project returns.
FinishBuild ==
    /\ bpc = "variant"
    /\ bvar > Len(Variants)
    /\ bpc' = "done"
    /\ UNCHANGED <<art, written, bvar, bfiles, bidx, bmanifest, lastop>>
    /\ UNCHANGED notBuild

\* Between two builds an archive is deleted from release_artifacts (the case
\* os.path.exists(tar_gz_path) of lines 153 and 156 is there for).
RemoveArchive(v, b) ==
    /\ bpc \in {"idle", "done", "failed", "crashed"}
    /\ art[v][b] # "absent"
    /\ art' = [art EXCEPT ![v][b] = "absent"]
    /\ bpc' = "idle"
    /\ UNCHANGED <<written, bvar, bfiles, bidx, bmanifest, lastop>>
    /\ UNCHANGED notBuild

NextBuild ==
    \/ \E v \in VariantSet, b \in Basenames : RemoveArchive(v, b)
    \/ StartBuild
    \/ BuildVariant
    \/ AddFile
    \/ WriteManifest
    \/ FinishBuild

SpecBuild == InitBuild /\ [][NextBuild]_vars

(***************************************************************************)
(* Vocabulary of the properties.                                           *)
(***************************************************************************)
\* The published names of the manifest entries whose archive is on disk.
FilesWithArchive == UrisOf(manifest) \cap archives

\* The digest the local manifest records for the published name u.
LocalHash(u) == FileData(manifest, u)

\* The run works on the local files the previous run worked on.
SameLocal == prev.manifest = manifest /\ prev.archives = archives

\* A run is under way or has ended (the local files are those it reads).
InRun == pc \in Running \cup Ended

\* The names of the calls made so far in the run.
Called(op) == {calls[i][2] : i \in {j \in 1..Len(calls) : calls[j][1] = op}}

\* The run has obtained the remote manifest: it was there, and the download
\* and the parse succeeded.
Downloaded == remote_manifest \notin {None, Unbound}

(***************************************************************************)
(* C1.  Idempotence: after a live run without --force that completed       *)
(* without error, a second run without --force on the same local files,    *)
(* reading the release as the first run left it (its download of the       *)
(* manifest succeeds), decides skip for the manifest and for every entry   *)
(* whose archive exists, and calls neither delete_asset nor upload_asset.  *)
(***************************************************************************)
C1_SecondRun ==
    /\ InRun
    /\ prev.pc = "done" /\ ~prev.dry_run /\ ~prev.force
    /\ SameLocal
    /\ ~force
    /\ remote_manifest # None

C1_Idempotence ==
    C1_SecondRun =>
        /\ calls = <<>>
        /\ pc # "failed"
        /\ \A n \in AssetNames : plan[n] \in {"none", "skip"}
        /\ pc \notin {"manifest", "interrupted"} => plan[manifest_filename] = "skip"
        /\ pc = "done" => \A u \in FilesWithArchive : plan[u] = "skip"

C1_Witness ==
    /\ C1_SecondRun
    /\ pc = "done"
    /\ prev.uploaded = 3
    /\ skipped = 3

(***************************************************************************)
(* C2.  Within one run every per-file delete and upload precedes the       *)
(* upload of the manifest, so that the manifest on the release never       *)
(* records, for a published name, a digest that the asset of that name     *)
(* does not have yet.                                                      *)
(***************************************************************************)
C2_FilesBeforeManifest ==
    /\ \A i \in 1..Len(calls) : \A j \in 1..Len(calls) :
          (calls[i] = <<"upload_asset", manifest_filename>> /\ j > i)
              => calls[j][2] = manifest_filename
    /\ (/\ InRun
        /\ ~dry_run
        /\ plan[manifest_filename] \in {"upload", "replace"}
        /\ uploaded >= 1)
           => \A u \in FilesWithArchive : assets[u] = LocalHash(u)

(***************************************************************************)
(* C3.  Recovery: when a live run that started on a consistent release was *)
(* interrupted between two of its calls, one further complete live run     *)
(* without --force on the same local files leaves the release with the     *)
(* local manifest and, for every entry whose archive exists, an asset that *)
(* packs the file with the recorded digest; no stale asset is skipped.     *)
(***************************************************************************)
C3_Recovery ==
    (/\ pc = "done" /\ ~force /\ ~dry_run
     /\ prev.pc = "interrupted" /\ prev.consistent0
     /\ SameLocal)
        => /\ assets[manifest_filename] = manifest
           /\ \A u \in FilesWithArchive : assets[u] = LocalHash(u)

(***************************************************************************)
(* C4.  Without --force, when the release has no asset with the manifest's *)
(* name but has the asset of an entry (whose archive exists), the run      *)
(* uploads the manifest as new, replaces that asset and returns its        *)
(* counts: it does not fail.                                               *)
(***************************************************************************)
C4_NoRemoteManifest ==
    (/\ pc \in {"done", "failed"}
     /\ ~force
     /\ manifest_filename \notin existing_assets
     /\ FilesWithArchive \cap existing_assets # {})
        => /\ pc = "done"
           /\ plan[manifest_filename] = "upload"
           /\ \A u \in FilesWithArchive \cap existing_assets : plan[u] = "replace"

(***************************************************************************)
(* C5.  An entry is skipped only if --force is off, its asset exists, the  *)
(* remote manifest was downloaded and parsed, and that manifest has an     *)
(* entry with the same uri and the same sha256; when download_manifest     *)
(* returns None every entry whose asset exists is replaced, never skipped. *)
(***************************************************************************)
C5_SkipOnlyIfVerified ==
    InRun => \A u \in Uris :
        /\ plan[u] = "skip" =>
              /\ ~force
              /\ u \in existing_assets
              /\ Downloaded
              /\ Downloaded =>
                    \E b \in DOMAIN remote_manifest.files :
                        /\ remote_manifest.files[b].uri = u
                        /\ remote_manifest.files[b].sha256 = LocalHash(u)
        /\ (remote_manifest = None /\ plan[u] # "none" /\ u \in existing_assets)
              => plan[u] = "replace"

C5_Witness ==
    /\ pc = "done"
    /\ \E u \in Uris : plan[u] = "skip"
    /\ \E u \in Uris :
          /\ plan[u] = "replace"
          /\ RemoteHash(remote_manifest, u) \notin {NoHash, LocalHash(u)}

(***************************************************************************)
(* C6.  With --force the run uploads the manifest and every entry whose    *)
(* archive exists, whatever the release holds: nothing is skipped, and it  *)
(* returns skipped = 0 and uploaded = 1 + the number of such entries.      *)
(***************************************************************************)
C6_ForceUploadsAll ==
    (force /\ pc \in {"done", "failed"})
        => /\ pc = "done"
           /\ skipped = 0
           /\ uploaded = 1 + Cardinality(FilesWithArchive)
           /\ \A n \in {manifest_filename} \cup FilesWithArchive :
                 plan[n] \in {"upload", "replace"}

(***************************************************************************)
(* C7.  With --force, for every object (the manifest, an entry) whose name *)
(* is already an asset of the release, delete_asset is called on it before *)
(* upload_asset is called for that name: no upload targets a name that is  *)
(* still on the release.                                                   *)
(***************************************************************************)
C7_ForceDeletesFirst ==
    force =>
        \A i \in 1..Len(calls) :
            (calls[i][1] = "upload_asset" /\ calls[i][2] \in existing_assets)
                => \E j \in 1..(i - 1) : calls[j] = <<"delete_asset", calls[i][2]>>

(***************************************************************************)
(* C8.  Dry-run purity: a dry run changes no asset of the release, and a   *)
(* live run on the same local files, the same release, the same remote     *)
(* manifest and the same --force takes the decisions the dry run took and  *)
(* returns the counts it returned.                                         *)
(***************************************************************************)
C8_LiveAfterDry ==
    /\ pc \in {"done", "failed"} /\ ~dry_run
    /\ prev.pc = "done" /\ prev.dry_run
    /\ prev.force = force
    /\ prev.remote_manifest = remote_manifest
    /\ SameLocal

C8_DryRunPurity ==
    /\ (InRun /\ dry_run) => assets = assets0
    /\ C8_LiveAfterDry =>
          /\ pc = "done"
          /\ plan = prev.plan
          /\ uploaded = prev.uploaded
          /\ skipped = prev.skipped

(***************************************************************************)
(* C9.  For an entry whose archive does not exist in artifacts_dir the run *)
(* calls neither delete_asset nor upload_asset for its published name (an  *)
(* asset of that name stays as it is), counts it neither as uploaded nor   *)
(* as skipped, and goes on with the remaining entries.                     *)
(***************************************************************************)
C9_MissingArchive ==
    InRun =>
        /\ \A u \in UrisOf(manifest) \ archives :
              /\ plan[u] = "none"
              /\ u \notin Called("delete_asset") \cup Called("upload_asset")
              /\ assets[u] = assets0[u]
        /\ pc = "done" =>
              /\ uploaded + skipped = 1 + Cardinality(FilesWithArchive)
              /\ \A u \in FilesWithArchive : plan[u] # "none"

C9_Witness ==
    /\ pc = "done"
    /\ ~dry_run
    /\ UriOf("app") \in UrisOf(manifest) \ archives
    /\ assets[UriOf("app")] # NoAsset(UriOf("app"))
    /\ UriOf("rt") \in FilesWithArchive
    /\ plan[UriOf("rt")] = "replace"

(***************************************************************************)
(* C10.  Hash sensitivity: on a release on which a run skipped every       *)
(* entry, after the sha256 of exactly one entry of the local manifest has  *)
(* changed, the next run without --force (that obtains the remote          *)
(* manifest) replaces that entry and still skips every other entry.        *)
(***************************************************************************)
\* The entries of the local manifest whose sha256 differs from the one the
\* previous run read.
ChangedEntries ==
    {b \in DOMAIN manifest.files :
        manifest.files[b].sha256 # prev.manifest.files[b].sha256}

C10_OneChanged ==
    /\ InRun /\ ~force /\ remote_manifest # None
    /\ prev.pc = "done"
    /\ prev.archives = archives
    /\ DOMAIN prev.manifest.files = DOMAIN manifest.files
    /\ \A u \in FilesWithArchive : prev.plan[u] = "skip"
    /\ Cardinality(ChangedEntries) = 1
    /\ \A b \in ChangedEntries : manifest.files[b].uri \in archives

C10_HashSensitivity ==
    C10_OneChanged =>
        /\ pc # "failed"
        /\ \A b \in DOMAIN manifest.files :
              LET u == manifest.files[b].uri IN
              IF b \in ChangedEntries
              THEN plan[u] \in {"none", "replace"}
              ELSE plan[u] \in {"none", "skip"}
        /\ pc = "done" =>
              \A u \in FilesWithArchive : plan[u] # "none"

C10_Witness ==
    /\ C10_OneChanged
    /\ pc = "done"
    /\ ~dry_run
    /\ ChangedEntries = {"rt"}
    /\ plan[UriOf("rt")] = "replace"
    /\ plan[UriOf("app")] = "skip"
    /\ assets[UriOf("rt")] = LocalHash(UriOf("rt"))

(***************************************************************************)
(* C11.  The manifest's decision without --force: it is skipped exactly    *)
(* when the release has an asset of its name, the download and the parse   *)
(* succeed and the document on the release equals the local manifest, in   *)
(* whatever key order and layout it is served; it is replaced (delete,     *)
(* then upload) when the asset exists but differs or cannot be obtained;   *)
(* it is uploaded as new, without a delete, when there is no such asset.   *)
(***************************************************************************)
C11_Decided == InRun /\ ~force /\ plan[manifest_filename] # "none"

C11_ManifestDecision ==
    /\ (InRun /\ pc \notin {"manifest", "interrupted"})
          => plan[manifest_filename] # "none"
    /\ C11_Decided =>
          LET mf == manifest_filename
              there == mf \in existing_assets
              same == /\ there
                      /\ remote_manifest # None
                      /\ assets0[mf] = manifest
          IN
          /\ plan[mf] = "skip" <=> same
          /\ plan[mf] = "replace" <=> (there /\ ~same)
          /\ plan[mf] = "upload" <=> ~there
          /\ plan[mf] = "skip" =>
                mf \notin Called("delete_asset") \cup Called("upload_asset")
          /\ plan[mf] = "replace" =>
                /\ calls[1] = <<"delete_asset", mf>>
                /\ Len(calls) >= 2 => calls[2] = <<"upload_asset", mf>>
                /\ pc \in {"files", "file_upload", "done"} => Len(calls) >= 2
          /\ plan[mf] = "upload" =>
                /\ mf \notin Called("delete_asset")
                /\ calls[1] = <<"upload_asset", mf>>

\* A run that skipped a two-entry manifest (the release serves it in either
\* key order and layout), after a run that replaced a manifest it could not
\* download.
C11_Witness ==
    /\ C11_Decided
    /\ pc = "done"
    /\ plan[manifest_filename] = "skip"
    /\ Cardinality(DOMAIN manifest.files) = 2
    /\ prev.pc = "done" /\ ~prev.force
    /\ prev.plan[manifest_filename] = "replace"
    /\ prev.remote_manifest = None

(***************************************************************************)
(* C20.  Plan accounting: in a run that returns, the manifest and every    *)
(* entry whose archive exists have exactly one decision among skip, upload *)
(* (new) and replace, the entries without archive have none, and uploaded  *)
(* and skipped count these decisions, so uploaded + skipped = 1 + the      *)
(* number of such entries.  When the release holds neither the manifest    *)
(* nor the asset of any entry, the run does not fail, every decision is    *)
(* upload, no delete_asset is called, and it returns skipped = 0 and       *)
(* uploaded = 1 + the number of such entries.                              *)
(***************************************************************************)
C20_EmptyRelease ==
    InRun /\ existing_assets \cap ({manifest_filename} \cup UrisOf(manifest)) = {}

C20_PlanAccounting ==
    /\ pc = "done" =>
          /\ \A n \in {manifest_filename} \cup FilesWithArchive :
                plan[n] \in {"skip", "upload", "replace"}
          /\ \A n \in AssetNames \ ({manifest_filename} \cup FilesWithArchive) :
                plan[n] = "none"
          /\ uploaded =
                Cardinality({n \in AssetNames : plan[n] \in {"upload", "replace"}})
          /\ skipped = Cardinality({n \in AssetNames : plan[n] = "skip"})
          /\ uploaded + skipped = 1 + Cardinality(FilesWithArchive)
    /\ C20_EmptyRelease =>
          /\ pc # "failed"
          /\ \A n \in AssetNames : plan[n] \in {"none", "upload"}
          /\ Called("delete_asset") = {}
          /\ pc = "done" =>
                /\ uploaded = 1 + Cardinality(FilesWithArchive)
                /\ skipped = 0

C20_Witness ==
    /\ C20_EmptyRelease
    /\ pc = "done"
    /\ ~dry_run /\ ~force
    /\ uploaded = 3
    /\ skipped = 0
    /\ Len(calls) = 3

(***************************************************************************)
(* C14.  When a delete_asset or upload_asset request of a live run fails,  *)
(* the exception leaves compare_and_upload: the run is failed and prints   *)
(* no summary, the failed call is the last call of the run (whatever       *)
(* happens next is a new invocation, which starts from scratch), and no    *)
(* call is made twice in a run.                                            *)
(***************************************************************************)
C14_CallFailed == error \in {"HTTPError", "AlreadyExists"}

C14_FailurePropagates ==
    /\ [](C14_CallFailed => (pc = "failed" /\ ~dry_run /\ calls # <<>>))
    /\ [](\A i, j \in DOMAIN calls : calls[i] = calls[j] => i = j)
    /\ [][C14_CallFailed =>
            (pc' = "manifest" /\ calls' = <<>> /\ error' = "none")]_vars

\* The manifest was replaced, the asset of the first entry was deleted, and
\* the upload that should replace it failed; the second entry is undecided.
C14_Witness ==
    /\ pc = "failed"
    /\ error = "HTTPError"
    /\ ~force
    /\ Len(calls) = 4
    /\ calls[3] = <<"delete_asset", UriOf("app")>>
    /\ calls[4] = <<"upload_asset", UriOf("app")>>
    /\ assets[UriOf("app")] = NoAsset(UriOf("app"))
    /\ plan[UriOf("rt")] = "none"

(***************************************************************************)
(* C12.  When an upload run ends on a precondition error (no token, no     *)
(* release for the tag, no artifacts directory, no manifest or one that    *)
(* cannot be read), no delete_asset or upload_asset call has been made     *)
(* before in that run, also when the run is upload_all over several        *)
(* targets and the error is a later target's.                              *)
(***************************************************************************)
PreconditionErrors ==
    {"token", "artifacts_dir", "no_manifest", "manifest_unreadable", "release"}

\* The positions of the log with an event of the kind `what`.
Events(what) == {i \in DOMAIN log : log[i][1] = what}

C12_ErrorsBeforeMutation ==
    (cpc = "exit1" /\ cerr \in PreconditionErrors) => Events("call") = {}

(***************************************************************************)
(* C13.  upload_all runs the targets' processes one after another in the   *)
(* order it found them; a process is started only after the one before it  *)
(* returned 0; once a process has returned non-zero upload_all ends with   *)
(* status 1 and nothing more is started; and (at least one target found)   *)
(* it ends with "All uploads completed" and status 0 exactly when every    *)
(* target's process returned 0, calls or no calls.                         *)
(***************************************************************************)
\* The events of the log of the kind `what`, in order.
EventSeq(what) == SelectSeq(log, LAMBDA e : e[1] = what)

C13_Sequential ==
    apc # "off" =>
        /\ Len(EventSeq("start")) <= Len(target_triples)
        /\ \A k \in DOMAIN EventSeq("start") :
              EventSeq("start")[k][2] = target_triples[k]
        /\ \A i \in DOMAIN log :
              IF log[i][1] = "start"
              THEN i > 1 => log[i - 1] = <<"exit", log[i - 1][2], 0>>
              ELSE /\ i > 1
                   /\ log[i - 1][1] # "exit"
                   /\ log[i - 1][2] = log[i][2]
        /\ apc = "exit1" =>
              \/ target_triples = <<>> /\ log = <<>>
              \/ log # <<>> /\ log[Len(log)] = <<"exit", log[Len(log)][2], 1>>
        /\ (apc \in {"exit0", "exit1"} /\ target_triples # <<>>) =>
              (apc = "exit0" <=>
                 /\ Len(EventSeq("exit")) = Len(target_triples)
                 /\ \A k \in DOMAIN EventSeq("exit") : EventSeq("exit")[k][3] = 0)

\* Both targets done with status 0, the first of them without a single call.
C13_Witness ==
    /\ apc = "exit0"
    /\ Len(target_triples) = 2
    /\ \A i \in Events("call") : log[i][2] = target_triples[2]
    /\ Events("call") # {}

(***************************************************************************)
(* C15.  A release_artifacts directory with more than one file matching    *)
(* *-manifest.json is a configuration error: the upload process of that    *)
(* target ends with a non-zero status and enters compare_and_upload with   *)
(* none of the manifests.                                                  *)
(***************************************************************************)
C15_MultipleManifests ==
    (cpc \in {"compare", "exit0", "exit1"} /\ dirs[ctarget].manifests > 1)
        => /\ cpc = "exit1"
           /\ ccalls = 0

(***************************************************************************)
(* C16.  The cache decision of add_to_manifest: a collected file is not    *)
(* compressed exactly when its archive exists and its fresh sha256 is the  *)
(* one the target's previously written manifest records for its basename;  *)
(* then the archive is left as it is.  In every other case (no manifest,   *)
(* no entry, another digest, no archive) an existing archive is removed    *)
(* and the file is compressed anew.                                        *)
(***************************************************************************)
\* add_to_manifest is at a file whose archive exists and whose digest the
\* manifest on disk records.
C16_Hit ==
    LET v == Variants[bvar]
        f == bfiles[bidx]
    IN  /\ art[v][f.basename] # "absent"
        /\ written[v] # None
        /\ f.basename \in DOMAIN written[v].files
        /\ written[v].files[f.basename].sha256 = f.sha256

C16_CacheDecision ==
    [][(bpc = "collect" /\ bidx <= Len(bfiles)) =>
         LET v == Variants[bvar]
             f == bfiles[bidx]
         IN  /\ lastop'.basename = f.basename
             /\ lastop'.op = "kept" <=> C16_Hit
             /\ C16_Hit => art' = art
             /\ ~C16_Hit =>
                   /\ lastop'.op \in {"compressed", "cut"}
                   /\ lastop'.op = "compressed" => art'[v][f.basename] = f.sha256
                   /\ lastop'.op = "cut" => art'[v][f.basename] = "truncated"
                   /\ \A w \in VariantSet, b \in Basenames :
                         <<w, b>> # <<v, f.basename>> => art'[w][b] = art[w][b]
      ]_vars

\* The additional file was kept, after the release file, whose digest is not
\* the recorded one, was compressed.
C16_Witness ==
    /\ bpc = "collect"
    /\ lastop = [basename |-> "rt", op |-> "kept"]
    /\ "app" \in DOMAIN bmanifest.files
    /\ RecordedSha(written[Variants[bvar]], "app") \notin
          {NoHash, bmanifest.files["app"].sha256}
    /\ art[Variants[bvar]]["app"] = bmanifest.files["app"].sha256

(***************************************************************************)
(* C17.  A truncated archive is never reused: whatever builds, crashes in  *)
(* compress and changes of the files came before, after a build that       *)
(* completes every archive named in a written manifest is a complete       *)
(* archive of the file with the sha256 the manifest records.               *)
(***************************************************************************)
C17_NoTruncatedReuse ==
    bpc = "done" =>
        \A v \in VariantSet : \A b \in DOMAIN written[v].files :
            art[v][b] = written[v].files[b].sha256

(***************************************************************************)
(* C18.  After a completed build the entries of a target's manifest and    *)
(* the archives in its release_artifacts directory correspond one to one:  *)
(* every entry has its archive and every archive its entry.                *)
(***************************************************************************)
C18_Bijection ==
    bpc = "done" =>
        \A v \in VariantSet :
            {b \in Basenames : art[v][b] # "absent"} = DOMAIN written[v].files

(***************************************************************************)
(* C19.  Published names are unique across the targets of a platform: no   *)
(* uri is in the manifests of two variants, the names of the additional    *)
(* files (prefix "any") included.                                          *)
(***************************************************************************)
C19_UniqueNames ==
    bpc = "done" =>
        \A v \in VariantSet, w \in VariantSet :
            v # w => UrisOf(written[v]) \cap UrisOf(written[w]) = {}

(***************************************************************************)
(* C21.  Targets share no mutable state: while the run of one target       *)
(* (sm86) reconciles the release, it deletes (to replace it) no asset that *)
(* the manifest of another target of the same build names; the other       *)
(* variants of the platform are built with the same additional files.      *)
(***************************************************************************)
\* The manifests build_project can have written for the variants other than
\* the one being reconciled, the additional file there or not as it is in
\* this target's manifest.
C21_OtherManifests ==
    {BuiltManifest(v, app, rt) :
        v \in {w \in VariantSet : get_target(w) # Target},
        app \in Contents,
        rt \in {c \in Contents : c = "missing" <=> "rt" \notin DOMAIN manifest.files}}

C21_NoSharedAssets ==
    (InRun /\ ~dry_run) =>
        \A m \in C21_OtherManifests : UrisOf(m) \cap Called("delete_asset") = {}

(***************************************************************************)
(* C22.  The local manifest and the local archives are read-only input of  *)
(* reconciliation: no step of an upload run (live or dry, with or without  *)
(* --force, ending in a return, an exception or an interruption) changes   *)
(* the manifest or the set of archives; only a build changes them.         *)
(***************************************************************************)
C22_LocalReadOnly ==
    [][pc' # "built" => (manifest' = manifest /\ archives' = archives)]_vars

\* A live run has changed the release with three uploads, on local files that
\* a build had changed after the previous run.
C22_Witness ==
    /\ pc = "done"
    /\ ~dry_run
    /\ uploaded = 3
    /\ assets # assets0
    /\ prev.pc = "done"
    /\ prev.manifest # manifest

(***************************************************************************)
(* C23.  When a run without --force decides skip for the manifest, it      *)
(* calls delete_asset for nothing and does not fail: every entry whose     *)
(* archive exists is skipped if its asset is on the release and uploaded   *)
(* as new if it is not, never replaced.                                    *)
(***************************************************************************)
C23_ManifestSkipped == InRun /\ ~force /\ plan[manifest_filename] = "skip"

C23_SkipMeansNoDelete ==
    C23_ManifestSkipped =>
        /\ Called("delete_asset") = {}
        /\ pc # "failed"
        /\ \A u \in Uris :
              /\ plan[u] # "replace"
              /\ plan[u] = "skip" => u \in existing_assets
              /\ plan[u] = "upload" => u \notin existing_assets
        /\ pc = "done" => \A u \in FilesWithArchive : plan[u] \in {"skip", "upload"}

\* The manifest and one entry skipped, the missing asset of the other entry
\* uploaded.
C23_Witness ==
    /\ C23_ManifestSkipped
    /\ pc = "done"
    /\ ~dry_run
    /\ plan[UriOf("app")] = "skip"
    /\ plan[UriOf("rt")] = "upload"
    /\ calls = <<<<"upload_asset", UriOf("rt")>>>>

(***************************************************************************)
(* C24.  The manifest on disk is rewritten only after every archive of the *)
(* build of the target has been produced: no step inside                   *)
(* collect_and_move_artifacts (a file kept, compressed, or cut short by a  *)
(* crash) and no failed build step changes a manifest file, and the step   *)
(* that does write one writes the manifest of the variant at hand, with an *)
(* entry for every collected file, each with its archive in place.         *)
(***************************************************************************)
C24_ManifestLast ==
    [][/\ (bpc = "collect" /\ bidx <= Len(bfiles)) => written' = written
       /\ written' # written =>
             LET v == Variants[bvar] IN
             /\ bpc = "collect"
             /\ bidx > Len(bfiles)
             /\ \A w \in VariantSet \ {v} : written'[w] = written[w]
             /\ DOMAIN written'[v].files =
                   {bfiles[i].basename : i \in DOMAIN bfiles}
             /\ \A b \in DOMAIN written'[v].files :
                   /\ art[v][b] # "absent"
                   /\ written'[v].files[b].sha256 =
                         bfiles[CHOOSE i \in DOMAIN bfiles :
                                   bfiles[i].basename = b].sha256
      ]_vars

\* The build died in compress of the second file: the first file's new
\* archive is there, the manifest on disk is the previous build's.
C24_Witness ==
    /\ bpc = "crashed"
    /\ lastop = [basename |-> "rt", op |-> "cut"]
    /\ "app" \in DOMAIN bmanifest.files
    /\ written[Variants[bvar]] # None
    /\ "app" \in DOMAIN written[Variants[bvar]].files
    /\ written[Variants[bvar]].files["app"].sha256 # bmanifest.files["app"].sha256
    /\ art[Variants[bvar]]["app"] = bmanifest.files["app"].sha256

====
